---- MODULE Spec2Model ----
(***************************************************************************)
(* Build-time scripts of the SV Staden site:                               *)
(*   - the Optimizer   (src/scripts/optimize-images.mjs, lines 1-319)      *)
(*   - the Fetcher     (src/unnamed/part_000)                              *)
(*   - the Record Shaper, three variants                                   *)
(*       V1: src/unnamed/part_001                                          *)
(*       V2: src/scripts/optimize-images.mjs, lines 320-436                *)
(*       V3: src/scripts/optimize-images.mjs, lines 437-525                *)
(* Each script is single-threaded; an awaited call is one step.            *)
(***************************************************************************)
EXTENDS Integers, Sequences, FiniteSets, TLC

VARIABLES
  \* ---- Optimizer --------------------------------------------------------
  fs,          \* the image directories: path -> bytes or NoFile
  cacheFile,   \* .image-cache.json on disk: whether it exists, and its map path -> entry
  imageCache,  \* the in-memory cache map (module variable imageCache)
  opc,         \* position of main(): "idle", "dirs", "files"
  dirIdx,      \* index into CONFIG.imageDirs of the directory being processed
  queue,       \* imageFiles still to be handled in processDirectory's loop
  stats,       \* processDirectory's local stats
  totalStats,  \* main's totalStats
  runs,        \* completed Optimizer runs
  edits,       \* user edits of the image directories so far
  startFs,     \* fs when the current (or last) run started
  startCache,  \* imageCache right after loadCache of the current (or last) run
  report,      \* console report of the current run: path -> outcome printed
  prevReport,  \* the lines of the previous run's console report that say "optimized"
  changedSince, \* TRUE when the user edited a file since the previous run ended
  found,       \* imageFiles.length added up over the directories of the current run
  \* ---- content source and environment ----------------------------------
  env,         \* which of NOTION_API_KEY, NOTION_DATABASE_ID are set
  db,          \* the published records: id -> first attachment of property Bild
  dbEdits,     \* edits of the records by their authors so far
  \* ---- Fetcher ----------------------------------------------------------
  fpc,         \* position: "boot", "exit1", "ready", "loop", "download", "done", "failed"
  idx,         \* index of the record the loop is at
  target,      \* the location the request in flight goes to: 0 is the record's
               \* image URL (and the value while no request is in flight),
               \* another number a redirect's Location
  fImageMap,   \* the imageMap object of downloadNotionImages
  mapFile,     \* src/data/image-map.json on disk
  newsFiles,   \* the files of public/images/news that the Fetcher created
  imageDirMade,\* public/images/news exists
  attempted,   \* records whose download was started in this run ("Lade: ...")
  failed,      \* records whose download failed in this run ("Fehler bei ...")
  fQueried,    \* this run issued notion.databases.query
  fRuns,       \* Fetcher processes started so far
  \* ---- Record Shaper ----------------------------------------------------
  spc,         \* position: "off", "loaded", "done", "rejected"
  variant,     \* which of the three modules is loaded
  shaperMap,   \* the module variable imageMap of V1 and V2
  articles,    \* what getPublishedNews returned: id -> article
  shQueried,   \* getPublishedNews issued notion.databases.query
  \* ---- slugify, called on its own ---------------------------------------
  input,       \* the argument of slugify(text)
  output,      \* what the call returned
  slugReturned \* the call has returned

optVars == << fs, cacheFile, imageCache, opc, dirIdx, queue, stats, totalStats,
              runs, edits, startFs, startCache, report, prevReport, changedSince,
              found >>

siteVars == << env, db, dbEdits, fpc, idx, target, fImageMap, mapFile, newsFiles,
               imageDirMade, attempted, failed, fQueried, fRuns,
               spc, variant, shaperMap, articles, shQueried >>

slugVars == << input, output, slugReturned >>

vars == << optVars, siteVars, slugVars >>

\* ---------------------------------------------------------------- bounds
MaxSize == 2
MaxRuns == 2
MaxEdits == 1
MaxRecords == 2
MaxFetchRuns == 2
MaxTargets == 1
MaxDbEdits == 1
MaxTextLen == 4

\* ------------------------------------------------------------- Optimizer
\* a path with no file behind it, a cache key with no entry, a missing cache file
NoFile == [tag |-> "none", sz |-> 0]
NoEntry == [hash |-> << >>, optimized |-> FALSE, originalSize |-> 0, optimizedSize |-> 0]

\* CONFIG.imageDirs: 1 = public/images, 2 = public/images/news
ImageDirs == << "public/images", "public/images/news" >>

\* CONFIG.supportedFormats
SupportedFormats == { ".jpg", ".jpeg", ".png", ".webp" }

\* The files the model puts in the image directories.  A base name holds no dot,
\* and the WebP sibling of every path is a path.
Paths ==
  { [dir |-> 1, base |-> "a", ext |-> ".jpg"],
    [dir |-> 1, base |-> "a", ext |-> ".webp"],
    [dir |-> 2, base |-> "b", ext |-> ".JPG"] }

\* String.prototype.toLowerCase on the extensions in use
ToLowerExt(e) ==
  CASE e = ".JPG" -> ".jpg"
    [] e = ".JPEG" -> ".jpeg"
    [] e = ".PNG" -> ".png"
    [] e = ".WEBP" -> ".webp"
    [] OTHER -> e

\* const ext = path.extname(filepath).toLowerCase()
ExtOf(p) == ToLowerExt(p.ext)

\* filepath.replace(ext, '.webp'): the first occurrence of the LOWERCASED
\* extension in the path is replaced; a path that does not contain it (an
\* upper-case extension) is returned unchanged.
WebpPath(p) == IF p.ext = ExtOf(p) THEN [p EXCEPT !.ext = ".webp"] ELSE p

\* File bytes: who produced them and how many there are.
\*   "u" user-supplied, "e" written by the re-encode, "w" written as a sibling
Contents == [tag : {"u", "e", "w"}, sz : 1..MaxSize]
\* an image as the user supplies it is the largest the model holds; what the
\* re-encode makes of it is any size
UserContents == { c \in Contents : c.tag = "u" /\ c.sz = MaxSize }

\* fs.statSync(filepath).size
SizeOf(c) == c.sz

\* getFileHash: the md5 digest of the bytes (distinct bytes, distinct digest)
getFileHash(c) == << "md5", c.tag, c.sz >>

\* isOptimized(filepath, hash) against a cache map
isOptimized(cache, p, hash) ==
  LET cached == cache[p]
  IN  /\ cached # NoEntry
      /\ cached.hash = hash
      /\ cached.optimized

\* mutant of IsSmaller: the temporary file also replaces an original of its size
IsSmallerOrEqual(optimizedSize, originalSize) == optimizedSize <= originalSize

\* sizes of a WebP sibling as sharp writes it: one that a later pass cannot
\* shrink and one that it can
SiblingSizes == { 1, MaxSize }

\* if (optimizedSize < originalSize)
IsSmaller(optimizedSize, originalSize) == optimizedSize < originalSize

EmptyCache == [p \in Paths |-> NoEntry]
ZeroStats == [processed |-> 0, skipped |-> 0, errors |-> 0, totalSaved |-> 0]
NoReport == [p \in Paths |-> "none"]
NoCacheFile == [exists |-> FALSE, data |-> EmptyCache]

\* All orders of a finite set, as sequences (readdirSync's order is the
\* platform's, the code does not sort).
Orders(S) ==
  { q \in [1..Cardinality(S) -> S] : \A i, j \in 1..Cardinality(S) : q[i] = q[j] => i = j }

\* error.message of what optimizeImage's try block caught: empty or not
ErrorMessages == { "", "Input file is missing" }

\* else if (result.error): the branch is taken for a message that is truthy
CountsAsError(message) == message # ""

\* stats.errors++ and the report line of that branch
ErrorCounted(s, message) ==
  IF CountsAsError(message) THEN [s EXCEPT !.errors = @ + 1] ELSE s
ErrorReported(r, p, message) ==
  IF CountsAsError(message) THEN [r EXCEPT ![p] = "error"] ELSE r

\* files.filter(...) of processDirectory for directory d
ImageFilesOf(d) ==
  { p \in Paths : p.dir = d /\ fs[p] # NoFile /\ ExtOf(p) \in SupportedFormats }

OptInit ==
  /\ fs \in [Paths -> {NoFile} \cup UserContents]
  /\ cacheFile = NoCacheFile
  /\ imageCache = EmptyCache
  /\ opc = "idle"
  /\ dirIdx = 0
  /\ queue = << >>
  /\ stats = ZeroStats
  /\ totalStats = ZeroStats
  /\ runs = 0
  /\ edits = 0
  /\ startFs = fs
  /\ startCache = EmptyCache
  /\ report = NoReport
  /\ prevReport = NoReport
  /\ changedSince = FALSE
  /\ found = 0

\* The user adds or replaces an image between two runs (what the directories
\* hold before the first run is Init's choice).
UserEdit ==
  /\ UNCHANGED << siteVars, slugVars >>
  /\ opc = "idle"
  /\ runs >= 1
  /\ edits < MaxEdits
  /\ \E p \in Paths, c \in UserContents :
       /\ fs[p] # c
       /\ fs' = [fs EXCEPT ![p] = c]
  /\ edits' = edits + 1
  /\ changedSince' = TRUE
  /\ UNCHANGED << cacheFile, imageCache, opc, dirIdx, queue, stats, totalStats,
                  runs, startFs, startCache, report, prevReport, found >>

\* what a console report says was optimized: its success lines
Optimized(r) == [p \in Paths |-> IF r[p] = "success" THEN "success" ELSE "none"]

\* loadCache: the parsed file; a missing file leaves imageCache at its initial {}
loadCache == IF cacheFile.exists THEN cacheFile.data ELSE EmptyCache

\* main, up to the loop over CONFIG.imageDirs
StartRun ==
  /\ UNCHANGED << siteVars, slugVars >>
  /\ opc = "idle"
  /\ runs < MaxRuns
  /\ imageCache' = loadCache
  /\ totalStats' = ZeroStats
  /\ stats' = ZeroStats
  /\ dirIdx' = 1
  /\ queue' = << >>
  /\ opc' = "dirs"
  /\ startFs' = fs
  /\ startCache' = loadCache
  /\ prevReport' = Optimized(report)
  /\ report' = NoReport
  /\ found' = 0
  /\ UNCHANGED << fs, cacheFile, runs, edits, changedSince >>

\* processDirectory, up to its loop: list the directory, keep the supported files
EnterDirectory ==
  /\ UNCHANGED << siteVars, slugVars >>
  /\ opc = "dirs"
  /\ dirIdx <= Len(ImageDirs)
  /\ \E q \in Orders(ImageFilesOf(dirIdx)) : queue' = q
  /\ found' = found + Cardinality(ImageFilesOf(dirIdx))
  /\ stats' = ZeroStats
  /\ opc' = "files"
  /\ UNCHANGED << fs, cacheFile, imageCache, dirIdx, totalStats, runs, edits,
                  startFs, startCache, report, prevReport, changedSince >>

\* One pass of processDirectory's loop whose optimizeImage call returns
\* { skipped: true, reason: 'Bereits optimiert' }
OptimizeCached ==
  /\ UNCHANGED << siteVars, slugVars >>
  /\ opc = "files" /\ queue # << >>
  /\ LET p == Head(queue) IN
       /\ isOptimized(imageCache, p, getFileHash(fs[p]))
       /\ report' = [report EXCEPT ![p] = "cached"]
  /\ stats' = [stats EXCEPT !.skipped = @ + 1]
  /\ queue' = Tail(queue)
  /\ UNCHANGED << fs, cacheFile, imageCache, opc, dirIdx, totalStats, runs, edits,
                  startFs, startCache, prevReport, changedSince, found >>

\* ... whose optimizeImage call throws in image.metadata() or in the re-encode
\* (.toFile(tempPath)) and returns { error: error.message }
OptimizeCodecError ==
  /\ UNCHANGED << siteVars, slugVars >>
  /\ opc = "files" /\ queue # << >>
  /\ \E message \in ErrorMessages :
       LET p == Head(queue) IN
         /\ ~isOptimized(imageCache, p, getFileHash(fs[p]))
         /\ report' = ErrorReported(report, p, message)
         /\ stats' = ErrorCounted(stats, message)
  /\ queue' = Tail(queue)
  /\ UNCHANGED << fs, cacheFile, imageCache, opc, dirIdx, totalStats, runs, edits,
                  startFs, startCache, prevReport, changedSince, found >>

\* ... whose re-encode is smaller: rename, WebP sibling, cache entry, { success }
OptimizeCommit ==
  /\ UNCHANGED << siteVars, slugVars >>
  /\ opc = "files" /\ queue # << >>
  /\ LET p == Head(queue)
         hash == getFileHash(fs[p])
         originalSize == SizeOf(fs[p])
     IN  /\ ~isOptimized(imageCache, p, hash)
         /\ \E optimizedSize \in 1..MaxSize, webpSize \in SiblingSizes :
              LET tmp == [tag |-> "e", sz |-> optimizedSize]
                  webpPath == WebpPath(p)
                  renamed == [fs EXCEPT ![p] = tmp]
                  written == IF ExtOf(p) # ".webp"
                               THEN [renamed EXCEPT ![webpPath] = [tag |-> "w", sz |-> webpSize]]
                               ELSE renamed
              IN  /\ IsSmaller(optimizedSize, originalSize)
                  \* sharp rejects toFile(webpPath) when webpPath is its input file
                  /\ ExtOf(p) # ".webp" => webpPath # p
                  /\ fs' = written
                  /\ imageCache' = [imageCache EXCEPT ![p] =
                                      [hash |-> getFileHash(written[p]),
                                       optimized |-> TRUE,
                                       originalSize |-> originalSize,
                                       optimizedSize |-> optimizedSize]]
                  /\ stats' = [stats EXCEPT !.processed = @ + 1,
                                            !.totalSaved = @ + (originalSize - optimizedSize)]
         /\ report' = [report EXCEPT ![p] = "success"]
  /\ queue' = Tail(queue)
  /\ UNCHANGED << cacheFile, opc, dirIdx, totalStats, runs, edits,
                  startFs, startCache, prevReport, changedSince, found >>

\* ... whose re-encode is smaller and is renamed over the original, and whose
\* WebP sibling emission then throws: { error: error.message }, after the rename
OptimizeSiblingError ==
  /\ UNCHANGED << siteVars, slugVars >>
  /\ opc = "files" /\ queue # << >>
  /\ LET p == Head(queue)
         hash == getFileHash(fs[p])
         originalSize == SizeOf(fs[p])
     IN  /\ ~isOptimized(imageCache, p, hash)
         /\ ExtOf(p) # ".webp"
         /\ \E optimizedSize \in 1..MaxSize :
              /\ IsSmaller(optimizedSize, originalSize)
              /\ fs' = [fs EXCEPT ![p] = [tag |-> "e", sz |-> optimizedSize]]
         /\ \E message \in ErrorMessages :
              /\ report' = ErrorReported(report, p, message)
              /\ stats' = ErrorCounted(stats, message)
  /\ queue' = Tail(queue)
  /\ UNCHANGED << cacheFile, imageCache, opc, dirIdx, totalStats, runs, edits,
                  startFs, startCache, prevReport, changedSince, found >>

\* ... whose re-encode is not smaller: the temporary file is deleted, the
\* original is marked optimized, { skipped, 'Keine Verbesserung möglich' }
OptimizeNoImprovement ==
  /\ UNCHANGED << siteVars, slugVars >>
  /\ opc = "files" /\ queue # << >>
  /\ LET p == Head(queue)
         hash == getFileHash(fs[p])
         originalSize == SizeOf(fs[p])
     IN  /\ ~isOptimized(imageCache, p, hash)
         /\ \E optimizedSize \in 1..MaxSize : ~IsSmaller(optimizedSize, originalSize)
         /\ imageCache' = [imageCache EXCEPT ![p] =
                             [hash |-> hash,
                              optimized |-> TRUE,
                              originalSize |-> originalSize,
                              optimizedSize |-> originalSize]]
         /\ report' = [report EXCEPT ![p] = "noimprovement"]
  /\ stats' = [stats EXCEPT !.skipped = @ + 1]
  /\ queue' = Tail(queue)
  /\ UNCHANGED << fs, cacheFile, opc, dirIdx, totalStats, runs, edits,
                  startFs, startCache, prevReport, changedSince, found >>

\* processDirectory returns, which ends the life of its local stats; main adds
\* them to totalStats
LeaveDirectory ==
  /\ UNCHANGED << siteVars, slugVars >>
  /\ opc = "files" /\ queue = << >>
  /\ totalStats' = [processed |-> totalStats.processed + stats.processed,
                    skipped |-> totalStats.skipped + stats.skipped,
                    errors |-> totalStats.errors + stats.errors,
                    totalSaved |-> totalStats.totalSaved + stats.totalSaved]
  /\ dirIdx' = dirIdx + 1
  /\ opc' = "dirs"
  /\ stats' = ZeroStats
  /\ UNCHANGED << fs, cacheFile, imageCache, queue, runs, edits,
                  startFs, startCache, report, prevReport, changedSince, found >>

\* saveCache and the summary
FinishRun ==
  /\ UNCHANGED << siteVars, slugVars >>
  /\ opc = "dirs"
  /\ dirIdx > Len(ImageDirs)
  /\ cacheFile' = [exists |-> TRUE, data |-> imageCache]
  /\ opc' = "idle"
  /\ runs' = runs + 1
  /\ changedSince' = FALSE
  /\ UNCHANGED << fs, imageCache, dirIdx, queue, stats, totalStats, edits,
                  startFs, startCache, report, prevReport, found >>

OptNext ==
  \/ UserEdit
  \/ StartRun
  \/ EnterDirectory
  \/ OptimizeCached
  \/ OptimizeCodecError
  \/ OptimizeCommit
  \/ OptimizeSiblingError
  \/ OptimizeNoImprovement
  \/ LeaveDirectory
  \/ FinishRun

\* ------------------------------------------------------- slug derivation
LowerLetters ==
  { "a", "b", "c", "d", "e", "f", "g", "h", "i", "j", "k", "l", "m",
    "n", "o", "p", "q", "r", "s", "t", "u", "v", "w", "x", "y", "z" }
Digits == { "0", "1", "2", "3", "4", "5", "6", "7", "8", "9" }

\* String.prototype.toLowerCase, one character
LowerChar(c) ==
  CASE c = "A" -> "a"
    [] c = "B" -> "b"
    [] c = "O" -> "o"
    [] c = "T" -> "t"
    [] c = "Ä" -> "ä"
    [] c = "Ö" -> "ö"
    [] c = "Ü" -> "ü"
    [] OTHER -> c

\* .toLowerCase()
ToLowerCase(text) == [i \in 1..Len(text) |-> LowerChar(text[i])]

\* the lookup table of .replace(/[äöüß]/g, ...)
Umlaut(c) ==
  CASE c = "ä" -> << "a", "e" >>
    [] c = "ö" -> << "o", "e" >>
    [] c = "ü" -> << "u", "e" >>
    [] c = "ß" -> << "s", "s" >>
    [] OTHER -> << c >>

RECURSIVE ReplaceUmlauts(_)
\* .replace(/[äöüß]/g, (char) => map[char] || char)
ReplaceUmlauts(text) ==
  IF text = << >> THEN << >> ELSE Umlaut(Head(text)) \o ReplaceUmlauts(Tail(text))

\* the character class [a-z0-9]
IsSlugChar(c) == c \in LowerLetters \cup Digits

RECURSIVE CollapseRuns(_, _)
\* .replace(/[^a-z0-9]+/g, '-'): inRun says the previous character was
\* outside the class, so that a run yields one hyphen
CollapseRuns(text, inRun) ==
  IF text = << >> THEN << >>
  ELSE IF IsSlugChar(Head(text)) THEN << Head(text) >> \o CollapseRuns(Tail(text), FALSE)
  ELSE IF inRun THEN CollapseRuns(Tail(text), TRUE)
  ELSE << "-" >> \o CollapseRuns(Tail(text), TRUE)

\* mutant of StripHyphens: only a leading hyphen is stripped
StripLeadingHyphen(text) ==
  IF text # << >> /\ Head(text) = "-" THEN Tail(text) ELSE text

\* .replace(/(^-|-$)/g, '')
StripHyphens(text) ==
  LET a == IF text # << >> /\ Head(text) = "-" THEN Tail(text) ELSE text
  IN  IF a # << >> /\ a[Len(a)] = "-" THEN SubSeq(a, 1, Len(a) - 1) ELSE a

\* slugify(text), the same in the Fetcher and in every Shaper variant
slugify(text) == StripHyphens(CollapseRuns(ReplaceUmlauts(ToLowerCase(text)), FALSE))

\* ------------------------------------------------- content source records
Ids == 1..MaxRecords

\* an absent value (null, undefined), an image URL and a local path, in one shape
Null == [kind |-> "null", rec |-> 0, slug |-> << >>, ext |-> ""]
\* the time-limited URL of an uploaded file; its path names the upload, "....PNG"
UploadedUrl(id) == [kind |-> "file", rec |-> id, slug |-> << >>, ext |-> ".PNG"]
\* an external URL; its path carries no known image extension
ExternalUrl(id) == [kind |-> "external", rec |-> id, slug |-> << >>, ext |-> ""]
\* `/images/news/${filename}`
LocalPath(slug, ext) == [kind |-> "local", rec |-> 0, slug |-> slug, ext |-> ext]

\* props.Bild.files[0] as the content API delivers it: nothing attached, an
\* uploaded file, an external reference, or an attachment of another type
NoAttachment == [type |-> "none", file |-> Null, external |-> Null]
Attachments(id) ==
  { NoAttachment,
    [type |-> "file", file |-> UploadedUrl(id), external |-> Null],
    [type |-> "external", file |-> Null, external |-> ExternalUrl(id)],
    [type |-> "file_upload", file |-> Null, external |-> Null] }

\* props.Titel.title[0].plain_text of the records; << >> is a record without title
TitleOf(id) ==
  CASE id = 1 -> << "Ä", "b", "!" >>
    [] id = 2 -> << >>
    [] OTHER -> << "a", "e", "b" >>

\* page.id as text
PageIdText(id) ==
  CASE id = 1 -> << "p", "1" >>
    [] id = 2 -> << "p", "2" >>
    [] OTHER -> << "p", "3" >>

EmptyMap == [id \in Ids |-> Null]
NoMapFile == [exists |-> FALSE, data |-> EmptyMap]
NoArticles == [id \in Ids |-> [image |-> Null, slug |-> << >>]]

\* if (!process.env.NOTION_API_KEY) ... if (!process.env.NOTION_DATABASE_ID) ...
ConfigPresent == env.apiKey /\ env.databaseId

\* ---------------------------------------------------------------- Fetcher
Terminal == { "off", "exit1", "done", "failed" }

\* mutant of StartupCheckPasses: the script goes on without the two checks
StartupCheckSkipped == TRUE

\* the two startup checks let the script go on
StartupCheckPasses == ConfigPresent

\* mutant of FreshImageMap: the run starts from the map the last run wrote
LoadedImageMap == mapFile.data

\* const imageMap = {}
FreshImageMap == EmptyMap

\* mutant of FetcherImageUrl: an attachment of another type yields a URL
FetcherImageUrlAnyType(id) ==
  IF db[id].type = "file" THEN db[id].file
  ELSE IF db[id].type = "none" THEN Null
  ELSE ExternalUrl(id)

\* "Bild-URL extrahieren"
FetcherImageUrl(id) ==
  IF db[id].type = "file" THEN db[id].file
  ELSE IF db[id].type = "external" THEN db[id].external
  ELSE Null

\* getExtension(url)
getExtension(url) ==
  IF ToLowerExt(url.ext) \in { ".jpg", ".jpeg", ".png", ".gif", ".webp", ".avif" }
    THEN ToLowerExt(url.ext)
    ELSE ".jpg"

\* const title = ... || 'ohne-titel'
FetcherTitle(id) ==
  IF TitleOf(id) # << >> THEN TitleOf(id)
  ELSE << "o", "h", "n", "e", "-", "t", "i", "t", "e", "l" >>

\* `${slug}${ext}`
FileNameOf(id) ==
  [slug |-> slugify(FetcherTitle(id)), ext |-> getExtension(FetcherImageUrl(id))]

\* fs.createWriteStream(filepath): the file exists from now on
Created(files, name) == files \cup { name }

\* mutant of AfterFailure: the first failed download ends the loop
AbortAfterFailure(i) == MaxRecords + 1

\* the catch of the loop body logs, and the loop goes to the next record
AfterFailure(i) == i + 1

SiteIdle ==
  /\ env = [apiKey |-> TRUE, databaseId |-> TRUE]
  /\ db = [id \in Ids |-> NoAttachment]
  /\ dbEdits = 0
  /\ fpc = "off" /\ idx = 0 /\ target = 0
  /\ fImageMap = EmptyMap
  /\ mapFile = NoMapFile
  /\ newsFiles = {}
  /\ imageDirMade = FALSE
  /\ attempted = {} /\ failed = {}
  /\ fQueried = FALSE
  /\ fRuns = 0
  /\ spc = "off" /\ variant = "none"
  /\ shaperMap = EmptyMap
  /\ articles = NoArticles
  /\ shQueried = FALSE

SiteInit ==
  /\ env \in [apiKey : BOOLEAN, databaseId : BOOLEAN]
  /\ db \in { d \in [Ids -> UNION { Attachments(id) : id \in Ids }] :
                \A id \in Ids : d[id] \in Attachments(id) }
  /\ dbEdits = 0
  /\ fpc = "off" /\ idx = 0 /\ target = 0
  /\ fImageMap = EmptyMap
  /\ mapFile = NoMapFile
  /\ newsFiles = {}
  /\ imageDirMade = FALSE
  /\ attempted = {} /\ failed = {}
  /\ fQueried = FALSE
  /\ fRuns = 0
  /\ spc = "off" /\ variant = "none"
  /\ shaperMap = EmptyMap
  /\ articles = NoArticles
  /\ shQueried = FALSE

\* An author changes the attachment of a record while no script runs.
DbEdit ==
  /\ fpc \in Terminal /\ spc = "off"
  /\ dbEdits < MaxDbEdits
  /\ \E id \in Ids : \E a \in Attachments(id) :
       /\ db[id] # a
       /\ db' = [db EXCEPT ![id] = a]
  /\ dbEdits' = dbEdits + 1
  /\ UNCHANGED << env, fpc, idx, target, fImageMap, mapFile, newsFiles, imageDirMade,
                  attempted, failed, fQueried, fRuns,
                  spc, variant, shaperMap, articles, shQueried >>
  /\ UNCHANGED << optVars, slugVars >>

\* The script starts and a startup check fails: process.exit(1)
FBootMissingConfig ==
  /\ fpc \in Terminal /\ spc = "off"
  /\ fRuns < MaxFetchRuns
  /\ ~StartupCheckPasses
  /\ fpc' = "exit1"
  /\ fRuns' = fRuns + 1
  /\ idx' = 0 /\ target' = 0
  /\ fImageMap' = EmptyMap
  /\ attempted' = {} /\ failed' = {}
  /\ fQueried' = FALSE
  /\ UNCHANGED << env, db, dbEdits, mapFile, newsFiles, imageDirMade,
                  spc, variant, shaperMap, articles, shQueried >>
  /\ UNCHANGED << optVars, slugVars >>

\* The script starts and passes the startup checks
FBootOk ==
  /\ fpc \in Terminal /\ spc = "off"
  /\ fRuns < MaxFetchRuns
  /\ StartupCheckPasses
  /\ fpc' = "ready"
  /\ fRuns' = fRuns + 1
  /\ idx' = 0 /\ target' = 0
  /\ fImageMap' = EmptyMap
  /\ attempted' = {} /\ failed' = {}
  /\ fQueried' = FALSE
  /\ UNCHANGED << env, db, dbEdits, mapFile, newsFiles, imageDirMade,
                  spc, variant, shaperMap, articles, shQueried >>
  /\ UNCHANGED << optVars, slugVars >>

\* downloadNotionImages up to its loop: mkdir, the query, const imageMap = {}
FQuery ==
  /\ fpc = "ready"
  /\ ConfigPresent
  /\ imageDirMade' = TRUE
  /\ fQueried' = TRUE
  /\ fImageMap' = FreshImageMap
  /\ idx' = 1
  /\ fpc' = "loop"
  /\ UNCHANGED << env, db, dbEdits, target, mapFile, newsFiles, attempted, failed, fRuns,
                  spc, variant, shaperMap, articles, shQueried >>
  /\ UNCHANGED << optVars, slugVars >>

\* ... whose query rejects: downloadNotionImages().catch(console.error)
FQueryRejected ==
  /\ fpc = "ready"
  /\ imageDirMade' = TRUE
  /\ fQueried' = TRUE
  /\ fpc' = "failed"
  /\ UNCHANGED << env, db, dbEdits, idx, target, fImageMap, mapFile, newsFiles,
                  attempted, failed, fRuns,
                  spc, variant, shaperMap, articles, shQueried >>
  /\ UNCHANGED << optVars, slugVars >>

\* A pass of the loop for a record without image URL: "Übersprungen (kein Bild)"
FSkipRecord ==
  /\ fpc = "loop" /\ idx <= MaxRecords
  /\ FetcherImageUrl(idx) = Null
  /\ idx' = idx + 1
  /\ UNCHANGED << env, db, dbEdits, fpc, target, fImageMap, mapFile, newsFiles,
                  imageDirMade, attempted, failed, fQueried, fRuns,
                  spc, variant, shaperMap, articles, shQueried >>
  /\ UNCHANGED << optVars, slugVars >>

\* A pass of the loop for a record with image URL, up to the GET of downloadImage
FBeginDownload ==
  /\ fpc = "loop" /\ idx <= MaxRecords
  /\ FetcherImageUrl(idx) # Null
  /\ attempted' = attempted \cup { idx }
  /\ newsFiles' = Created(newsFiles, FileNameOf(idx))
  /\ target' = 0
  /\ fpc' = "download"
  /\ UNCHANGED << env, db, dbEdits, idx, fImageMap, mapFile, imageDirMade,
                  failed, fQueried, fRuns,
                  spc, variant, shaperMap, articles, shQueried >>
  /\ UNCHANGED << optVars, slugVars >>

\* The response is a 301 or 302: downloadImage(response.headers.location, filepath),
\* whatever redirects this download followed before; the Location is the server's choice
DlRedirect ==
  /\ fpc = "download"
  /\ \E location \in 0..MaxTargets :
       /\ location # target
       /\ target' = location
  /\ newsFiles' = Created(newsFiles, FileNameOf(idx))
  /\ UNCHANGED << env, db, dbEdits, fpc, idx, fImageMap, mapFile, imageDirMade,
                  attempted, failed, fQueried, fRuns,
                  spc, variant, shaperMap, articles, shQueried >>
  /\ UNCHANGED << optVars, slugVars >>

\* The response is a 200 and the file is written: imageMap[page.id] = ...
DlOk ==
  /\ fpc = "download"
  /\ fImageMap' = [fImageMap EXCEPT ![idx] =
                     LocalPath(FileNameOf(idx).slug, FileNameOf(idx).ext)]
  /\ idx' = idx + 1
  /\ fpc' = "loop"
  /\ target' = 0
  /\ UNCHANGED << env, db, dbEdits, mapFile, newsFiles, imageDirMade,
                  attempted, failed, fQueried, fRuns,
                  spc, variant, shaperMap, articles, shQueried >>
  /\ UNCHANGED << optVars, slugVars >>

\* The response has another status: reject(new Error('Failed to download ...'))
DlHttpError ==
  /\ fpc = "download"
  /\ failed' = failed \cup { idx }
  /\ idx' = AfterFailure(idx)
  /\ fpc' = "loop"
  /\ target' = 0
  /\ UNCHANGED << env, db, dbEdits, fImageMap, mapFile, newsFiles, imageDirMade,
                  attempted, fQueried, fRuns,
                  spc, variant, shaperMap, articles, shQueried >>
  /\ UNCHANGED << optVars, slugVars >>

\* The request fails: fs.unlink(filepath), reject(err)
DlTransportError ==
  /\ fpc = "download"
  /\ newsFiles' = newsFiles \ { FileNameOf(idx) }
  /\ failed' = failed \cup { idx }
  /\ idx' = AfterFailure(idx)
  /\ fpc' = "loop"
  /\ target' = 0
  /\ UNCHANGED << env, db, dbEdits, fImageMap, mapFile, imageDirMade,
                  attempted, fQueried, fRuns,
                  spc, variant, shaperMap, articles, shQueried >>
  /\ UNCHANGED << optVars, slugVars >>

\* After the loop: fs.writeFileSync(mapPath, JSON.stringify(imageMap, null, 2))
FWriteMap ==
  /\ fpc = "loop" /\ idx > MaxRecords
  /\ mapFile' = [exists |-> TRUE, data |-> fImageMap]
  /\ fpc' = "done"
  /\ UNCHANGED << env, db, dbEdits, idx, target, fImageMap, newsFiles, imageDirMade,
                  attempted, failed, fQueried, fRuns,
                  spc, variant, shaperMap, articles, shQueried >>
  /\ UNCHANGED << optVars, slugVars >>

\* ---------------------------------------------------------- Record Shaper
Variants == { "V1", "V2", "V3" }

\* Module load: new Client({ auth: ... }) with whatever the environment holds,
\* and, in V1 and V2, the image map read in a try/catch
ShLoad ==
  /\ spc = "off" /\ fpc \in Terminal
  /\ \E v \in Variants :
       /\ variant' = v
       /\ shaperMap' = IF v # "V3" /\ mapFile.exists THEN mapFile.data ELSE EmptyMap
  /\ spc' = "loaded"
  /\ UNCHANGED << env, db, dbEdits, fpc, idx, target, fImageMap, mapFile, newsFiles,
                  imageDirMade, attempted, failed, fQueried, fRuns, articles, shQueried >>
  /\ UNCHANGED << optVars, slugVars >>

\* props.Titel?.title?.[0]?.plain_text || 'Ohne Titel'
ShaperTitle(id) ==
  IF TitleOf(id) # << >> THEN TitleOf(id)
  ELSE << "O", "h", "n", "e", " ", "T", "i", "t", "e", "l" >>

\* mutant of ImageV1: the Notion URL is taken before the image map is looked at
ImageV1RemoteFirst(map, id) ==
  IF db[id].type = "file" /\ db[id].file # Null THEN db[id].file
  ELSE IF db[id].type = "external" /\ db[id].external # Null THEN db[id].external
  ELSE map[id]

\* V1: let imageUrl = imageMap[page.id] || null; if (!imageUrl) { ... }
ImageV1(map, id) ==
  IF map[id] # Null THEN map[id]
  ELSE IF db[id].type = "file" THEN db[id].file
  ELSE IF db[id].type = "external" THEN db[id].external
  ELSE Null

\* V2: if (imageMap[page.id]) { ... } else { ... }
ImageV2(map, id) ==
  IF map[id] # Null THEN map[id]
  ELSE IF db[id].type = "file" THEN db[id].file
  ELSE IF db[id].type = "external" THEN db[id].external
  ELSE Null

\* V3: props.Bild?.files?.[0]?.file?.url || props.Bild?.files?.[0]?.external?.url || null
ImageV3(id) ==
  IF db[id].file # Null THEN db[id].file
  ELSE IF db[id].external # Null THEN db[id].external
  ELSE Null

\* the article getPublishedNews makes of a record (its image and slug)
Shape(v, map, id) ==
  CASE v = "V1" -> [image |-> ImageV1(map, id), slug |-> slugify(ShaperTitle(id))]
    [] v = "V2" -> [image |-> ImageV2(map, id), slug |-> slugify(ShaperTitle(id))]
    [] OTHER -> [image |-> ImageV3(id),
                 slug |-> slugify(IF TitleOf(id) # << >> THEN TitleOf(id) ELSE PageIdText(id))]

\* getPublishedNews: the query answers and every record is shaped
ShQueryOk ==
  /\ spc = "loaded"
  /\ ConfigPresent
  /\ shQueried' = TRUE
  /\ articles' = [id \in Ids |-> Shape(variant, shaperMap, id)]
  /\ spc' = "done"
  /\ UNCHANGED << env, db, dbEdits, fpc, idx, target, fImageMap, mapFile, newsFiles,
                  imageDirMade, attempted, failed, fQueried, fRuns, variant, shaperMap >>
  /\ UNCHANGED << optVars, slugVars >>

\* getPublishedNews: the query is issued and rejects (as it does without
\* credential or database identifier)
ShQueryRejected ==
  /\ spc = "loaded"
  /\ shQueried' = TRUE
  /\ spc' = "rejected"
  /\ UNCHANGED << env, db, dbEdits, fpc, idx, target, fImageMap, mapFile, newsFiles,
                  imageDirMade, attempted, failed, fQueried, fRuns, variant, shaperMap,
                  articles >>
  /\ UNCHANGED << optVars, slugVars >>

\* The process that loaded the module ends
ShUnload ==
  /\ spc \in { "done", "rejected" }
  /\ spc' = "off"
  /\ variant' = "none"
  /\ shaperMap' = EmptyMap
  /\ articles' = NoArticles
  /\ shQueried' = FALSE
  /\ UNCHANGED << env, db, dbEdits, fpc, idx, target, fImageMap, mapFile, newsFiles,
                  imageDirMade, attempted, failed, fQueried, fRuns >>
  /\ UNCHANGED << optVars, slugVars >>

SiteNext ==
  \/ DbEdit
  \/ FBootMissingConfig
  \/ FBootOk
  \/ FQuery
  \/ FQueryRejected
  \/ FSkipRecord
  \/ FBeginDownload
  \/ DlRedirect
  \/ DlOk
  \/ DlHttpError
  \/ DlTransportError
  \/ FWriteMap
  \/ ShLoad
  \/ ShQueryOk
  \/ ShQueryRejected
  \/ ShUnload

\* the Optimizer's state while only the Fetcher and the Shaper run
OptIdle ==
  /\ fs = [p \in Paths |-> NoFile]
  /\ cacheFile = NoCacheFile
  /\ imageCache = EmptyCache
  /\ opc = "idle"
  /\ dirIdx = 0
  /\ queue = << >>
  /\ stats = ZeroStats
  /\ totalStats = ZeroStats
  /\ runs = 0
  /\ edits = 0
  /\ startFs = fs
  /\ startCache = EmptyCache
  /\ report = NoReport
  /\ prevReport = NoReport
  /\ changedSince = FALSE
  /\ found = 0

\* ------------------------------------------------- slugify on its own
\* the characters of the argument: a lower-case letter, an upper-case letter, a
\* digit, an upper-case umlaut, the sharp s, a blank, a hyphen and a punctuation mark
TextChars == { "a", "B", "7", "Ä", "ß", " ", "-", "!" }

Texts == UNION { [1..n -> TextChars] : n \in 0..MaxTextLen }

\* no call of slugify on its own is under way
SlugIdle ==
  /\ input = << >>
  /\ output = << >>
  /\ slugReturned = FALSE

SlugInit ==
  /\ input \in Texts
  /\ output = << >>
  /\ slugReturned = FALSE

\* slugify(text) is called and returns
CallSlugify ==
  /\ ~slugReturned
  /\ output' = slugify(input)
  /\ slugReturned' = TRUE
  /\ UNCHANGED << input, optVars, siteVars >>

SlugNext == CallSlugify

\* -------------------------------------------------------- specifications
Init == OptInit /\ SiteIdle /\ SlugIdle

SpecOpt == Init /\ [][OptNext]_vars

InitSite == SiteInit /\ OptIdle /\ SlugIdle

Spec == InitSite /\ [][SiteNext]_vars

InitSlug == SlugInit /\ OptIdle /\ SiteIdle

SpecSlug == InitSlug /\ [][SlugNext]_vars

\* ------------------------------------------------------ Optimizer claims

\* The pass of processDirectory's loop that is about to run handles this file.
Handling(p) == opc = "files" /\ queue # << >> /\ Head(queue) = p

\* The file had a cache entry, marked optimized, with its current hash when the
\* run started.
HitAtStart(p) ==
  /\ startFs[p] # NoFile
  /\ isOptimized(startCache, p, getFileHash(startFs[p]))

\* C1: during a run, a file whose cache entry matched its bytes when the run
\* started still has those bytes and has had no WebP sibling written for it
\* (it was not committed), whatever else the run processed.
C1_CachedFileUntouched ==
  opc # "idle" =>
    \A p \in Paths :
      HitAtStart(p) => /\ fs[p] = startFs[p]
                       /\ report[p] \in {"none", "cached"}

\* C2: in a run that follows another with no user edit in between, no file the
\* earlier run reported as optimized is reported as optimized again.
C2_SecondRunProcessesNothing ==
  (opc # "idle" /\ runs >= 1 /\ ~changedSince) =>
    \A p \in Paths : prevReport[p] = "success" => report[p] # "success"

\* C3: when a run has ended, every file it reported as "no improvement" has the
\* bytes it had before the run, and its cache entry holds
\* optimizedSize = originalSize and the hash of the pre-run bytes.
C3_NoImprovementLeavesFile ==
  (opc = "idle" /\ runs >= 1 /\ ~changedSince) =>
    \A p \in Paths :
      report[p] = "noimprovement" =>
        /\ fs[p] = startFs[p]
        /\ cacheFile.data[p].optimizedSize = cacheFile.data[p].originalSize
        /\ cacheFile.data[p].hash = getFileHash(startFs[p])

\* Every entry of a cache map has optimizedSize <= originalSize.
SizesOrdered(cache) ==
  \A p \in Paths : cache[p] # NoEntry => cache[p].optimizedSize <= cache[p].originalSize

\* C4: a pass replaces the file it handles only by strictly fewer bytes (the
\* re-encoded temporary file); an entry written on the commit path has
\* optimizedSize < originalSize; every entry of the cache, in memory and on
\* disk, has optimizedSize <= originalSize.
C4_ReplacedOnlyWhenSmaller ==
  /\ [](/\ SizesOrdered(imageCache)
        /\ SizesOrdered(cacheFile.data)
        /\ \A p \in Paths :
             report[p] = "success" =>
               imageCache[p].optimizedSize < imageCache[p].originalSize)
  /\ [][\A p \in Paths :
          (Handling(p) /\ fs'[p] # fs[p]) =>
            /\ fs'[p].tag = "e"
            /\ SizeOf(fs'[p]) < SizeOf(fs[p])
            /\ SizeOf(fs'[p]) = imageCache'[p].optimizedSize \/ report'[p] # "success"]_vars

\* C4 witness: a file was committed: it holds re-encoded bytes and its entry
\* records the shrink.
C4_Witness ==
  \E p \in Paths :
    /\ report[p] = "success"
    /\ fs[p].tag = "e"
    /\ imageCache[p].optimizedSize < imageCache[p].originalSize

\* C5: a pass that ends in the error outcome leaves the bytes of the file it
\* handled and the cache map as they were before the pass.
C5_ErrorMutatesNothing ==
  [][\A p \in Paths :
       (Handling(p) /\ report'[p] = "error") =>
         /\ fs'[p] = fs[p]
         /\ imageCache' = imageCache]_vars

\* processed + skipped + errors of main's totalStats, as the summary prints them
Counted == totalStats.processed + totalStats.skipped + totalStats.errors

C6_FailureDoesNotStopLoop ==
  /\ failed \subseteq attempted
  /\ \A i \in failed : fImageMap[i] = Null
  /\ fpc \in { "loop", "download" } =>
       \A j \in Ids : (j < idx /\ FetcherImageUrl(j) # Null) => j \in attempted
  /\ failed # {} => fpc \in { "loop", "download", "done" }
  /\ fpc = "done" =>
       /\ mapFile.exists
       /\ idx = MaxRecords + 1
       /\ \A i \in failed : mapFile.data[i] = Null

\* C6 witness: a run has written the map after a download failed and a later
\* record was downloaded: the later record has an entry, the failed one has none.
C6_Witness ==
  /\ fpc = "done"
  /\ \E i \in failed : \E j \in attempted \ failed :
       /\ i < j
       /\ mapFile.data[i] = Null
       /\ mapFile.data[j] # Null

\* the record has neither an uploaded-file URL nor an external URL
NoResolvableUrl(id) == db[id].file = Null /\ db[id].external = Null

\* C7: the map a Fetcher run writes has no entry for a record without
\* resolvable image URL, and an article shaped from such a record has image =
\* null when the image map has no entry for the record.
C7_NoUrlNoEntryNullImage ==
  /\ [](fpc \in { "loop", "download" } =>
          \A id \in Ids : NoResolvableUrl(id) => fImageMap[id] = Null)
  /\ [][(fpc = "loop" /\ fpc' = "done") =>
          \A id \in Ids : NoResolvableUrl(id) => mapFile'.data[id] = Null]_vars
  /\ [](spc = "done" =>
          \A id \in Ids :
            (NoResolvableUrl(id) /\ mapFile.data[id] = Null) => articles[id].image = Null)

\* C7 witness: a Fetcher run wrote a map with an entry for one record and none
\* for a record without image URL, and a Shaper gave that record image = null.
C7_Witness ==
  /\ fpc = "done" /\ spc = "done"
  /\ \E id \in Ids : \E other \in Ids :
       /\ NoResolvableUrl(id)
       /\ mapFile.data[id] = Null
       /\ articles[id].image = Null
       /\ mapFile.data[other] # Null

\* the image by priority: map entry, uploaded-file URL, external URL, null
PriorityImage(map, id) ==
  IF map[id] # Null THEN map[id]
  ELSE IF db[id].file # Null THEN db[id].file
  ELSE IF db[id].external # Null THEN db[id].external
  ELSE Null

\* C8 as stated: every Shaper variant gives each article the image-map entry of
\* its record when there is one, else the uploaded-file URL, else the external
\* URL, else null.
C8_EveryVariantPrefersMap ==
  spc = "done" =>
    \A id \in Ids : articles[id].image = PriorityImage(mapFile.data, id)

\* C8 amended: V1 and V2 give each article the entry of their loaded image map
\* when there is one, else the uploaded-file URL, else the external URL, else
\* null; V3 consults no map and gives the uploaded-file URL, else the external
\* URL, else null.
C8_MapVariantsPreferMap ==
  spc = "done" =>
    \A id \in Ids :
      articles[id].image =
        IF variant = "V3" THEN PriorityImage(EmptyMap, id)
                          ELSE PriorityImage(shaperMap, id)

\* C8 witness: V1 or V2 shaped a record that has both a map entry and a remote
\* URL, and the article holds the map entry.
C8_Witness ==
  /\ spc = "done" /\ variant \in { "V1", "V2" }
  /\ \E id \in Ids :
       /\ shaperMap[id] # Null
       /\ ~NoResolvableUrl(id)
       /\ articles[id].image = shaperMap[id]

\* C9 as stated: an entry of the image-map file is never removed.
C9_EntriesNeverRemoved ==
  [][\A id \in Ids : mapFile.data[id] # Null => mapFile'.data[id] # Null]_vars

\* C9 amended: every Fetcher run that gets through its loop rewrites the map
\* file wholesale: the file then holds exactly the records downloaded in that
\* run, whatever it held before.
C9_MapRewrittenWholesale ==
  fpc = "done" =>
    /\ mapFile.exists
    /\ \A id \in Ids : mapFile.data[id] # Null <=> id \in attempted \ failed

\* C9 witness: a later run has been through its loop and written a map that
\* lacks a record whose download failed this time.
C9_Witness ==
  /\ fpc = "done" /\ fRuns >= 2
  /\ \E id \in failed : mapFile.data[id] = Null
  /\ \E id \in attempted \ failed : mapFile.data[id] # Null

\* What C10 says of the Fetcher: without credential or database identifier it
\* is not started or has exited with code 1, and has neither queried, created
\* the image directory, started a download nor written a file.
FetcherStoppedAtStartup ==
  /\ fpc \in { "off", "exit1" }
  /\ ~fQueried
  /\ ~imageDirMade
  /\ attempted = {}
  /\ newsFiles = {}
  /\ ~mapFile.exists

\* C10 as stated: without credential or database identifier neither the
\* Fetcher nor the Shaper gets to a content-source query, a download or a write.
C10_MissingConfigStopsBoth ==
  ~ConfigPresent => (FetcherStoppedAtStartup /\ ~shQueried)

\* C10 amended: without credential or database identifier the Fetcher exits
\* with code 1 at startup before any query, download or write (the Shaper makes
\* no such check).
C10_MissingConfigStopsFetcher ==
  ~ConfigPresent => FetcherStoppedAtStartup

\* C10 witness: without configuration the Fetcher has exited with code 1 and a
\* Shaper has issued its query all the same.
C10_Witness ==
  /\ ~ConfigPresent
  /\ fpc = "exit1"
  /\ shQueried /\ spc = "rejected"

\* A step in which the download in flight follows a redirect to another
\* location (downloadImage calling itself with response.headers.location).
FollowsRedirect ==
  /\ fpc = "download" /\ fpc' = "download"
  /\ target' # target

\* C11: a download follows one level of redirect, not an unbounded chain, so
\* that every answered request brings the run closer to the end of its loop and
\* to the write of the image map; a redirect is followed only by the request
\* for the record's own image URL, never by a request that is itself the
\* result of a redirect.
C11_OneLevelOfRedirect ==
  [][FollowsRedirect => target = 0]_vars

\* ---------------------------------------------------------- slug claims
SlugAlphabet == LowerLetters \cup Digits \cup { "-" }

\* C12: what slugify returns consists only of characters in [a-z0-9] and
\* hyphens, with no leading hyphen, no trailing hyphen and no two adjacent
\* hyphens, for every input string.
C12_SlugShape ==
  slugReturned =>
    /\ \A i \in 1..Len(output) : output[i] \in SlugAlphabet
    /\ output # << >> => (output[1] # "-" /\ output[Len(output)] # "-")
    /\ \A i \in 1..(Len(output) - 1) : ~(output[i] = "-" /\ output[i + 1] = "-")

\* C12 witness: slugify has returned for an input that starts with an
\* upper-case umlaut, goes on with a run of two characters outside [a-z0-9]
\* and ends with a digit: the umlaut is transliterated and the run is one
\* hyphen inside the slug.
C12_Witness ==
  /\ slugReturned
  /\ input = << "Ä", " ", "-", "7" >>
  /\ output = << "a", "e", "-", "7" >>

====
